---------------------------- MODULE Spec2Model ----------------------------
(***************************************************************************)
(* Model of biogeme_optimization/linesearch.py: the Wolfe line search      *)
(* (linesearch) and the Newton driver built on it (newton_linesearch).     *)
(*                                                                         *)
(* Real numbers are exact dyadic rationals m * 2^e (records [m, e], m odd  *)
(* or zero), so every sum, product, halving and comparison of the code is  *)
(* computed exactly.  The Wolfe parameters beta1, beta2 and the tolerance  *)
(* eps are rationals [num, den]; a comparison against them is made after   *)
(* multiplying both sides by the (positive) denominator.                   *)
(***************************************************************************)
EXTENDS Integers, Sequences, FiniteSets, TLC

(***************************************************************************)
(* Exact arithmetic on dyadic rationals                                    *)
(***************************************************************************)
RECURSIVE Norm(_, _)
Norm(m, e) ==
    IF m = 0 THEN [m |-> 0, e |-> 0]
    ELSE IF m % 2 = 0 THEN Norm(m \div 2, e + 1)
    ELSE [m |-> m, e |-> e]

DInt(n) == Norm(n, 0)
Zero == DInt(0)
One == DInt(1)
Two == DInt(2)
Half == [m |-> 1, e |-> -1]

DNeg(a) == [m |-> -a.m, e |-> a.e]
DAbs(a) == [m |-> IF a.m < 0 THEN -a.m ELSE a.m, e |-> a.e]
DMul(a, b) == Norm(a.m * b.m, a.e + b.e)
DAdd(a, b) ==
    IF a.m = 0 THEN b
    ELSE IF b.m = 0 THEN a
    ELSE LET e == IF a.e < b.e THEN a.e ELSE b.e
         IN  Norm(a.m * 2^(a.e - e) + b.m * 2^(b.e - e), e)
DSub(a, b) == DAdd(a, DNeg(b))
DLt(a, b) == DSub(a, b).m < 0
DLe(a, b) == DSub(a, b).m <= 0
DMax(a, b) == IF DLt(a, b) THEN b ELSE a

(***************************************************************************)
(* numpy vectors: sequences of numbers                                     *)
(***************************************************************************)
VAdd(u, v) == [i \in 1..Len(u) |-> DAdd(u[i], v[i])]
VScale(c, v) == [i \in 1..Len(v) |-> DMul(c, v[i])]
VInt(s) == [i \in 1..Len(s) |-> DInt(s[i])]
Ones(v) == [i \in 1..Len(v) |-> One]

RECURSIVE Inner(_, _)
Inner(u, v) ==
    IF Len(u) = 0 THEN Zero
    ELSE DAdd(DMul(Head(u), Head(v)), Inner(Tail(u), Tail(v)))


(***************************************************************************)
(* Rational parameters [num, den], den > 0                                 *)
(***************************************************************************)
Rat(n, d) == [num |-> n, den |-> d]
RGe(r, s) == r.num * s.den >= s.num * r.den
\* c * r as a dyadic scaled by r.den, i.e. r.den * (r * c)
RTimes(r, c) == DMul(DInt(r.num), c)
RDen(r, c) == DMul(DInt(r.den), c)

(***************************************************************************)
(* The objective evaluator (fct): set_variables, f_g, f_g_h.               *)
(* Objectives:  "quad"   f(x) = sum_i x_i^2                                *)
(*              "cubic"  f(x) = sum_i (x_i^3 - 3 x_i)   (non-convex)       *)
(*              "lin"    f(x) = - sum_i x_i   (unbounded below)            *)
(*              "tight"  f(x) = sum_i (-20 x_i + 39 x_i^2 - 20 x_i^3)      *)
(* The evaluator counts its own calls (n_set, n_fg, n_fgh).                *)
(***************************************************************************)
Squares(x) == [i \in 1..Len(x) |-> DMul(x[i], x[i])]

F(obj, x) ==
    IF obj = "quad" THEN Inner(x, x)
    ELSE IF obj = "cubic"
    THEN DSub(Inner(Squares(x), x), DMul(DInt(3), Inner(Ones(x), x)))
    ELSE IF obj = "tight"
    THEN DAdd(DAdd(DMul(DInt(-20), Inner(Ones(x), x)),
                   DMul(DInt(39), Inner(x, x))),
              DMul(DInt(-20), Inner(Squares(x), x)))
    ELSE DNeg(Inner(Ones(x), x))

G(obj, x) ==
    IF obj = "quad" THEN VScale(Two, x)
    ELSE IF obj = "cubic"
    THEN [i \in 1..Len(x) |-> DSub(DMul(DInt(3), Squares(x)[i]), DInt(3))]
    ELSE IF obj = "tight"
    THEN [i \in 1..Len(x) |->
            DAdd(DAdd(DInt(-20), DMul(DInt(78), x[i])),
                 DMul(DInt(-60), Squares(x)[i]))]
    ELSE [i \in 1..Len(x) |-> DNeg(One)]

H(obj, x) ==
    [i \in 1..Len(x) |-> [j \in 1..Len(x) |->
        IF i # j THEN Zero
        ELSE IF obj = "quad" THEN Two
        ELSE IF obj = "cubic" THEN DMul(DInt(6), x[i])
        ELSE IF obj = "tight" THEN DSub(DInt(78), DMul(DInt(120), x[i]))
        ELSE Zero]]

set_variables(e, x) == [e EXCEPT !.x = x, !.n_set = @ + 1]

f_g(e) ==
    [fct |-> [e EXCEPT !.n_fg = @ + 1],
     function |-> F(e.obj, e.x),
     gradient |-> G(e.obj, e.x)]

f_g_h(e) ==
    [fct |-> [e EXCEPT !.n_fgh = @ + 1],
     f |-> F(e.obj, e.x),
     g |-> G(e.obj, e.x),
     h |-> H(e.obj, e.x)]

(***************************************************************************)
(* Program state                                                           *)
(*   pc     position of the running call                                   *)
(*   entry  the entry point the caller invoked                             *)
(*   fct    the evaluator object                                           *)
(*   mem    the caller's numpy array (starting_point); xk is bound to the  *)
(*          same object (line 136) and updated in place (line 165)         *)
(*   ls     locals of linesearch                                           *)
(*   nw     locals of newton_linesearch                                    *)
(*   error  the OptimizationError that left the call, "" if none           *)
(*   hist   history: what the call has done so far                         *)
(***************************************************************************)
VARIABLES pc, entry, fct, mem, ls, nw, error, hist

vars == <<pc, entry, fct, mem, ls, nw, error, hist>>

\* Faulty variant of MAX_ITERATIONS: one pass too many.
MaxIterationsPlusOne == 1000 + 1

\* line 54
MAX_ITERATIONS == 1000

\* Largest maxiter the caller passes to newton_linesearch
MaxMaxiter == 2

Inf == [inf |-> TRUE, v |-> Zero]
Fin(a) == [inf |-> FALSE, v |-> a]

NoResult == [set |-> FALSE, alpha |-> Zero, nbr_function_evaluations |-> 0]

LsIdle ==
    [iterate |-> <<>>, descent_direction |-> <<>>,
     alpha0 |-> Zero, beta1 |-> Rat(0, 1), beta2 |-> Rat(0, 1), lbd |-> Zero,
     function |-> Zero, gradient |-> <<>>, nbr_function_evaluations |-> 0,
     deriv |-> Zero, alpha |-> Zero, alphal |-> Zero, alphar |-> Inf,
     it |-> 0, value_candidate |-> Zero, gradient_candidate |-> <<>>,
     fg0 |-> 0, set0 |-> 0, result |-> NoResult]

\* The frame of a call linesearch(fct, iterate, descent_direction, alpha0,
\* beta1, beta2, lbd) on entry; fg0 and set0 remember the evaluator's call
\* counts at that moment.
LsFrame(e, iterate, descent_direction, alpha0, beta1, beta2, lbd) ==
    [LsIdle EXCEPT !.iterate = iterate,
                   !.descent_direction = descent_direction,
                   !.alpha0 = alpha0, !.beta1 = beta1, !.beta2 = beta2,
                   !.lbd = lbd, !.fg0 = e.n_fg, !.set0 = e.n_set]

\* Default arguments of linesearch (line 18)
DefaultAlpha0 == One
DefaultBeta1 == Rat(1, 10000)
DefaultBeta2 == Rat(99, 100)
DefaultLbd == Two

(***************************************************************************)
(* linesearch, lines 56-66: the parameter checks, in the order of the code *)
(***************************************************************************)
\* Faulty variant of ParamError: the Wolfe parameters are compared with >
\* instead of >=, so beta1 = beta2 passes.
ParamErrorStrictBeta(lbd, alpha0, beta1, beta2) ==
    IF DLe(lbd, One) THEN "lambda must be > 1"
    ELSE IF DLe(alpha0, Zero) THEN "alpha0 must be > 0"
    ELSE IF RGe(beta1, beta2) /\ ~RGe(beta2, beta1)
         THEN "Incompatible Wolfe cond. parameters"
    ELSE ""

ParamError(lbd, alpha0, beta1, beta2) ==
    IF DLe(lbd, One) THEN "lambda must be > 1"
    ELSE IF DLe(alpha0, Zero) THEN "alpha0 must be > 0"
    ELSE IF RGe(beta1, beta2) THEN "Incompatible Wolfe cond. parameters"
    ELSE ""

\* Faulty variant of NotDescent: deriv > 0, so a zero directional derivative
\* is taken for descent.
NotDescentStrict(deriv) == DLt(Zero, deriv)

\* line 74
NotDescent(deriv) == ~DLt(deriv, Zero)

\* Faulty variant of Wolfe1Violated: >= instead of >, so a trial exactly on
\* the sufficient-decrease line counts as too long.
Wolfe1ViolatedOrTight(value_candidate, function, alpha, beta1, deriv) ==
    DLe(DAdd(RDen(beta1, function), RTimes(beta1, DMul(alpha, deriv))),
        RDen(beta1, value_candidate))

\* Faulty variant of Wolfe1Violated: the slope term alpha * beta1 * deriv is
\* left out (plain decrease instead of sufficient decrease).
Wolfe1ViolatedNoSlope(value_candidate, function, alpha, beta1, deriv) ==
    DLt(function, value_candidate)

\* line 88: value_candidate > function + alpha * beta1 * deriv
Wolfe1Violated(value_candidate, function, alpha, beta1, deriv) ==
    DLt(DAdd(RDen(beta1, function), RTimes(beta1, DMul(alpha, deriv))),
        RDen(beta1, value_candidate))

\* Faulty variant of Wolfe2Violated: the comparison is reversed.
Wolfe2ViolatedReversed(gradient_candidate, descent_direction, beta2, deriv) ==
    DLt(RTimes(beta2, deriv),
        RDen(beta2, Inner(gradient_candidate, descent_direction)))

\* line 91: np.inner(gradient_candidate, descent_direction) < beta2 * deriv
Wolfe2Violated(gradient_candidate, descent_direction, beta2, deriv) ==
    DLt(RDen(beta2, Inner(gradient_candidate, descent_direction)),
        RTimes(beta2, deriv))

\* Faulty variant of Midpoint: the division by 2 is missing.
MidpointNoHalf(alphal, alphar) == DAdd(alphal, alphar)

\* lines 90 and 96: (alphal + alphar) / 2.0
Midpoint(alphal, alphar) == DMul(DAdd(alphal, alphar), Half)

\* Faulty variant of Update: a step that is too short is always expanded by
\* lbd, inside a finite bracket too.
UpdateAlwaysExpand(l, value_candidate, gradient_candidate) ==
    IF Wolfe1Violated(value_candidate, l.function, l.alpha, l.beta1, l.deriv)
    THEN [accept |-> FALSE, alphal |-> l.alphal, alphar |-> Fin(l.alpha),
          alpha |-> Midpoint(l.alphal, l.alpha)]
    ELSE IF Wolfe2Violated(gradient_candidate, l.descent_direction,
                           l.beta2, l.deriv)
    THEN [accept |-> FALSE, alphal |-> l.alpha, alphar |-> l.alphar,
          alpha |-> DMul(l.lbd, l.alpha)]
    ELSE [accept |-> TRUE, alphal |-> l.alphal, alphar |-> l.alphar,
          alpha |-> l.alpha]

\* Faulty variant of Update: the curvature test comes first, so a trial that
\* fails both tests is taken for too short.
UpdateCurvatureFirst(l, value_candidate, gradient_candidate) ==
    IF Wolfe2Violated(gradient_candidate, l.descent_direction, l.beta2, l.deriv)
    THEN [accept |-> FALSE, alphal |-> l.alpha, alphar |-> l.alphar,
          alpha |-> IF l.alphar.inf THEN DMul(l.lbd, l.alpha)
                    ELSE Midpoint(l.alpha, l.alphar.v)]
    ELSE IF Wolfe1Violated(value_candidate, l.function, l.alpha, l.beta1, l.deriv)
    THEN [accept |-> FALSE, alphal |-> l.alphal, alphar |-> Fin(l.alpha),
          alpha |-> Midpoint(l.alphal, l.alpha)]
    ELSE [accept |-> TRUE, alphal |-> l.alphal, alphar |-> l.alphar,
          alpha |-> l.alpha]

\* lines 88-98: the bracket update of one inner iteration; accept = break
Update(l, value_candidate, gradient_candidate) ==
    IF Wolfe1Violated(value_candidate, l.function, l.alpha, l.beta1, l.deriv)
    THEN [accept |-> FALSE, alphal |-> l.alphal, alphar |-> Fin(l.alpha),
          alpha |-> Midpoint(l.alphal, l.alpha)]
    ELSE IF Wolfe2Violated(gradient_candidate, l.descent_direction,
                           l.beta2, l.deriv)
    THEN [accept |-> FALSE, alphal |-> l.alpha, alphar |-> l.alphar,
          alpha |-> IF l.alphar.inf THEN DMul(l.lbd, l.alpha)
                    ELSE Midpoint(l.alpha, l.alphar.v)]
    ELSE [accept |-> TRUE, alphal |-> l.alphal, alphar |-> l.alphar,
          alpha |-> l.alpha]

\* Faulty variant of Evaluated: the trial evaluation is not counted.
EvaluatedUncounted(nbr_function_evaluations) == nbr_function_evaluations

\* line 86: nbr_function_evaluations += 1
Evaluated(nbr_function_evaluations) == nbr_function_evaluations + 1

\* Where control goes when linesearch returns or raises: back into the
\* driver (line 162), or out to the caller.  newton_linesearch has no
\* try/except, so an exception leaves it too.
AfterReturn == IF entry = "newton_linesearch" THEN "nw_resume" ELSE "returned"

\* Faulty variant of BaseEvaluation: the variables are set only on an
\* evaluator that holds none, so a used evaluator is evaluated where it stands.
BaseEvaluationStale(e, iterate) ==
    f_g(IF e.x = <<>> THEN set_variables(e, iterate) ELSE e)

\* lines 68-69: fct.set_variables(iterate); function, gradient = fct.f_g()
BaseEvaluation(e, iterate) == f_g(set_variables(e, iterate))

\* Faulty variant of AfterRaise: the driver catches the error of the line
\* search and goes round its loop again.
AfterRaiseRetried == IF entry = "newton_linesearch" THEN "nw_loop" ELSE "raised"

\* Where control goes when linesearch raises OptimizationError: the call of
\* line 162 is wrapped in no try/except, so the exception leaves
\* newton_linesearch as it leaves linesearch.
AfterRaise == "raised"

\* lines 56-81
LsEntry ==
    /\ pc = "ls_entry"
    /\ LET perr == ParamError(ls.lbd, ls.alpha0, ls.beta1, ls.beta2)
           fg == BaseEvaluation(fct, ls.iterate)
           deriv == Inner(fg.gradient, ls.descent_direction)
       IN  IF perr # ""
           THEN /\ pc' = AfterRaise
                /\ error' = perr
                /\ UNCHANGED <<fct, ls>>
           ELSE /\ fct' = fg.fct
                /\ ls' = [ls EXCEPT !.function = fg.function,
                                    !.gradient = fg.gradient,
                                    !.nbr_function_evaluations = 1,
                                    !.deriv = deriv,
                                    !.alpha = IF NotDescent(deriv) THEN @ ELSE ls.alpha0,
                                    !.alphal = Zero,
                                    !.alphar = Inf]
                /\ IF NotDescent(deriv)
                   THEN /\ pc' = AfterRaise
                        /\ error' = "descent_direction is not a descent direction"
                   ELSE /\ pc' = "ls_loop"
                        /\ UNCHANGED error
    /\ UNCHANGED <<entry, mem, nw, hist>>

\* lines 82-98 and 104: one pass of the for loop
LsIterate ==
    /\ pc = "ls_loop"
    /\ ls.it < MAX_ITERATIONS
    /\ LET candidate == VAdd(ls.iterate, VScale(ls.alpha, ls.descent_direction))
           e1 == set_variables(fct, candidate)
           fg == f_g(e1)
           u == Update(ls, fg.function, fg.gradient)
           n == Evaluated(ls.nbr_function_evaluations)
       IN  /\ fct' = fg.fct
           /\ ls' = [ls EXCEPT !.value_candidate = fg.function,
                               !.gradient_candidate = fg.gradient,
                               !.nbr_function_evaluations = n,
                               !.it = @ + 1,
                               !.alphal = u.alphal,
                               !.alphar = u.alphar,
                               !.alpha = u.alpha,
                               !.result = IF u.accept
                                          THEN [set |-> TRUE, alpha |-> u.alpha,
                                                nbr_function_evaluations |-> n]
                                          ELSE @]
           /\ pc' = IF u.accept THEN AfterReturn ELSE "ls_loop"
    /\ hist' = [hist EXCEPT !.trials = Append(@, ls.alpha)]
    /\ UNCHANGED <<entry, mem, nw, error>>

\* lines 99-103: the loop ran MAX_ITERATIONS times without a break
LsExhausted ==
    /\ pc = "ls_loop"
    /\ ls.it = MAX_ITERATIONS
    /\ pc' = AfterRaise
    /\ error' = "Line search algorithm could not find a step"
    /\ UNCHANGED <<entry, fct, mem, ls, nw, hist>>

(***************************************************************************)
(* Collaborators of newton_linesearch                                      *)
(***************************************************************************)
RECURSIVE MaxOf(_)
MaxOf(s) ==
    IF Len(s) = 0 THEN Zero
    ELSE DMax(Head(s), MaxOf(Tail(s)))

\* function.relative_gradient: max_i |g_i| * max(|x_i|, typx_i) / max(|f|, typf),
\* kept as the fraction [num, den]
relative_gradient(x, f, g, typx, typf) ==
    [num |-> MaxOf([i \in 1..Len(x) |->
                      DMul(DAbs(g[i]), DMax(DAbs(x[i]), typx[i]))]),
     den |-> DMax(DAbs(f), typf)]

\* Faulty variant of RelgradLeEps: relgrad < eps, so a relative gradient
\* exactly at the tolerance does not count as converged.
RelgradLtEps(relgrad, eps) ==
    DLt(RDen(eps, relgrad.num), RTimes(eps, relgrad.den))

\* relgrad <= eps (lines 145 and 174)
RelgradLeEps(relgrad, eps) ==
    DLe(RDen(eps, relgrad.num), RTimes(eps, relgrad.den))

\* algebra.schnabel_eskow_direction(g, h): some direction with a strictly
\* negative directional derivative; here one of -g, -g/2, -g/4 (-g/2 is the
\* Newton direction of "quad")
schnabel_eskow_direction(g, h) ==
    {d \in {VScale(DNeg(c), g) : c \in {One, Half, DMul(Half, Half)}} :
        DLt(Inner(g, d), Zero)}

(***************************************************************************)
(* newton_linesearch                                                       *)
(***************************************************************************)
NoMessage == [text |-> "", relgrad |-> [num |-> Zero, den |-> One],
              eps |-> Rat(0, 1), maxiter |-> 0]

\* line 146 / 175
ConvergedMessage(relgrad, eps) ==
    [text |-> "Relative gradient <= eps", relgrad |-> relgrad,
     eps |-> eps, maxiter |-> 0]

\* line 178
MaxiterMessage(maxiter) ==
    [text |-> "Maximum number of iterations reached",
     relgrad |-> [num |-> Zero, den |-> One], eps |-> Rat(0, 1),
     maxiter |-> maxiter]

NoReport ==
    [set |-> FALSE, Algorithm |-> "", Relative_gradient |-> [num |-> Zero, den |-> One],
     Number_of_iterations |-> 0, Number_of_function_evaluations |-> 0,
     Number_of_gradient_evaluations |-> 0, Number_of_hessian_evaluations |-> 0,
     Cause_of_termination |-> NoMessage]

\* Faulty variant of Report: the gradient count is filled from the Hessian
\* counter.
ReportSwapped(relgrad, k, nfev, ngev, nhev, message) ==
    [set |-> TRUE, Algorithm |-> "Unconstrained Newton with line search",
     Relative_gradient |-> relgrad,
     Number_of_iterations |-> k,
     Number_of_function_evaluations |-> nfev,
     Number_of_gradient_evaluations |-> nhev,
     Number_of_hessian_evaluations |-> nhev,
     Cause_of_termination |-> message]

\* lines 147-155 and 182-190
Report(relgrad, k, nfev, ngev, nhev, message) ==
    [set |-> TRUE, Algorithm |-> "Unconstrained Newton with line search",
     Relative_gradient |-> relgrad,
     Number_of_iterations |-> k,
     Number_of_function_evaluations |-> nfev,
     Number_of_gradient_evaluations |-> ngev,
     Number_of_hessian_evaluations |-> nhev,
     Cause_of_termination |-> message]

NwIdle ==
    [xk |-> "", eps |-> Rat(0, 1), maxiter |-> 0,
     f |-> Zero, g |-> <<>>, h |-> <<>>,
     nfev |-> 0, ngev |-> 0, nhev |-> 0,
     typx |-> <<>>, typf |-> Zero, relgrad |-> [num |-> Zero, den |-> One],
     k |-> 0, cont |-> FALSE, direction |-> <<>>, alpha |-> Zero, nfls |-> 0,
     message |-> NoMessage, messages |-> NoReport]

\* What the caller keeps of a finished call of linesearch
NoFirst == [set |-> FALSE, pc |-> "", error |-> "", result |-> NoResult,
            trials |-> <<>>]

\* History: start0 the value starting_point was passed with, ls_evals the
\* evaluation counts the line searches returned, directions and advances
\* the directions computed and the updates of xk, trials the trial steps of
\* the running line search, first the outcome of the caller's first of two
\* identical calls of linesearch
HistIdle == [start0 |-> <<>>, ls_evals |-> <<>>, directions |-> 0, advances |-> 0,
             trials |-> <<>>, first |-> NoFirst]

\* Faulty variant of Stopping: the iteration cap stops the loop one
\* iteration early.
StoppingEarly(relgrad, eps, k, maxiter, message) ==
    LET conv == RelgradLeEps(relgrad, eps)
        m1 == IF conv THEN ConvergedMessage(relgrad, eps) ELSE message
        m2 == IF k + 1 = maxiter THEN MaxiterMessage(maxiter) ELSE m1
    IN  [cont |-> ~conv /\ k + 1 # maxiter, message |-> m2]

\* lines 174-179: the two stopping tests, in the order of the code
Stopping(relgrad, eps, k, maxiter, message) ==
    LET conv == RelgradLeEps(relgrad, eps)
        m1 == IF conv THEN ConvergedMessage(relgrad, eps) ELSE message
        m2 == IF k = maxiter THEN MaxiterMessage(maxiter) ELSE m1
    IN  [cont |-> ~conv /\ k # maxiter, message |-> m2]

\* Faulty variant of Accumulate: the line search's evaluations are dropped.
AccumulateDropped(total, nfls) == total

\* lines 163-164: nfev += nfls, ngev += nfls
Accumulate(total, nfls) == total + nfls

\* lines 136-158
NwInit ==
    /\ pc = "nw_entry"
    /\ LET xk == mem[nw.xk]
           e1 == set_variables(fct, xk)
           r == f_g_h(e1)
           typx == Ones(xk)
           typf == DMax(DAbs(r.f), One)
           relgrad == relative_gradient(xk, r.f, r.g, typx, typf)
           base == [nw EXCEPT !.f = r.f, !.g = r.g, !.h = r.h,
                              !.nfev = 1, !.ngev = 1, !.nhev = 1,
                              !.typx = typx, !.typf = typf,
                              !.relgrad = relgrad]
       IN  /\ fct' = r.fct
           /\ IF RelgradLeEps(relgrad, nw.eps)
              THEN LET message == ConvergedMessage(relgrad, nw.eps)
                   IN  /\ nw' = [base EXCEPT !.message = message,
                                             !.messages = Report(relgrad, 0, 1, 1, 1, message)]
                       /\ pc' = "returned"
              ELSE /\ nw' = [base EXCEPT !.k = 0, !.cont = TRUE]
                   /\ pc' = "nw_loop"
    /\ UNCHANGED <<entry, mem, ls, error, hist>>

\* lines 160-162: the loop test, the direction, and the call of linesearch
\* with its default parameters
NwDirection ==
    /\ pc = "nw_loop"
    /\ nw.cont
    /\ \E direction \in schnabel_eskow_direction(nw.g, nw.h) :
        /\ nw' = [nw EXCEPT !.direction = direction]
        /\ ls' = LsFrame(fct, mem[nw.xk], direction, DefaultAlpha0,
                         DefaultBeta1, DefaultBeta2, DefaultLbd)
    /\ hist' = [hist EXCEPT !.directions = @ + 1, !.trials = <<>>]
    /\ pc' = "ls_entry"
    /\ UNCHANGED <<entry, fct, mem, error>>

\* lines 162-180, and lines 182-192 when the loop ends
NwResume ==
    /\ pc = "nw_resume"
    /\ LET alpha == ls.result.alpha
           nfls == ls.result.nbr_function_evaluations
           xk == VAdd(mem[nw.xk], VScale(alpha, nw.direction))
           e1 == set_variables(fct, xk)
           r == f_g_h(e1)
           nfev == Accumulate(nw.nfev, nfls) + 1
           ngev == Accumulate(nw.ngev, nfls) + 1
           nhev == nw.nhev + 1
           k == nw.k + 1
           typf == DMax(DAbs(r.f), One)
           relgrad == relative_gradient(xk, r.f, r.g, nw.typx, typf)
           stop == Stopping(relgrad, nw.eps, k, nw.maxiter, nw.message)
           body == [nw EXCEPT !.alpha = alpha, !.nfls = nfls,
                              !.f = r.f, !.g = r.g, !.h = r.h,
                              !.nfev = nfev, !.ngev = ngev, !.nhev = nhev,
                              !.k = k, !.typf = typf, !.relgrad = relgrad,
                              !.cont = stop.cont, !.message = stop.message]
       IN  /\ mem' = [mem EXCEPT ![nw.xk] = xk]
           /\ fct' = r.fct
           /\ hist' = [hist EXCEPT !.ls_evals = Append(@, nfls),
                                   !.advances = @ + 1]
           /\ IF stop.cont
              THEN /\ nw' = body
                   /\ pc' = "nw_loop"
              ELSE /\ nw' = [body EXCEPT
                               !.messages = Report(relgrad, k, nfev, ngev, nhev,
                                                   stop.message)]
                   /\ pc' = "returned"
    /\ UNCHANGED <<entry, ls, error>>

(***************************************************************************)
(* The callers: the calls the model explores                               *)
(***************************************************************************)
\* (objective, point, direction) of the direct calls of linesearch
LsProblems ==
    { [obj |-> "quad", iterate |-> VInt(<<10>>), descent_direction |-> VInt(<<-20>>)],
      [obj |-> "quad", iterate |-> VInt(<<10>>), descent_direction |-> VInt(<<-1>>)],
      [obj |-> "quad", iterate |-> VInt(<<10>>), descent_direction |-> VInt(<<20>>)],
      [obj |-> "quad", iterate |-> VInt(<<0>>), descent_direction |-> VInt(<<1>>)],
      [obj |-> "quad", iterate |-> VInt(<<1, 0>>), descent_direction |-> VInt(<<0, -1>>)],
      [obj |-> "quad", iterate |-> VInt(<<3, 4>>), descent_direction |-> VInt(<<-6, -8>>)],
      [obj |-> "cubic", iterate |-> VInt(<<0>>), descent_direction |-> VInt(<<1>>)],
      [obj |-> "cubic", iterate |-> VInt(<<0>>), descent_direction |-> VInt(<<3>>)],
      [obj |-> "cubic", iterate |-> VInt(<<0>>), descent_direction |-> VInt(<<7>>)],
      [obj |-> "lin", iterate |-> VInt(<<0>>), descent_direction |-> VInt(<<1>>)],
      [obj |-> "lin", iterate |-> VInt(<<0>>), descent_direction |-> VInt(<<-1>>)] }

Alpha0s == {One, Half, Zero, DInt(-1)}
Lbds == {Two, DInt(8), One, Half}
Betas == { <<DefaultBeta1, DefaultBeta2>>, <<Rat(1, 20), Rat(1, 10)>>,
           <<Rat(1, 2), Rat(1, 2)>>, <<Rat(9, 10), Rat(1, 10)>> }

\* (objective, starting point) of the calls of newton_linesearch
NwProblems ==
    { [obj |-> "quad", starting_point |-> VInt(<<10>>)],
      [obj |-> "quad", starting_point |-> VInt(<<0>>)],
      [obj |-> "quad", starting_point |-> <<DMul(Half, Half)>>],
      [obj |-> "quad", starting_point |-> VInt(<<3, 4>>)],
      [obj |-> "lin", starting_point |-> VInt(<<0>>)] }

Epss == {Rat(1, 2), Rat(1, 1000)}
Maxiters == 0..MaxMaxiter

NewEvaluator(obj) == [obj |-> obj, x |-> <<>>, n_set |-> 0, n_fg |-> 0, n_fgh |-> 0]

\* An evaluator that has been used before: it holds variables and has
\* served one f_g
UsedEvaluator(obj, x) == [NewEvaluator(obj) EXCEPT !.x = x, !.n_set = 1, !.n_fg = 1]

\* Direct calls whose parameters are fixed with the problem
ExtraCalls ==
    { [obj |-> "cubic", iterate |-> VInt(<<2>>), descent_direction |-> VInt(<<-7>>),
       alpha0 |-> Half, beta1 |-> Rat(1, 20), beta2 |-> Rat(1, 10), lbd |-> Two],
      [obj |-> "tight", iterate |-> VInt(<<0>>), descent_direction |-> VInt(<<1>>),
       alpha0 |-> One, beta1 |-> Rat(1, 20), beta2 |-> Rat(1, 10), lbd |-> Two],
      [obj |-> "quad", iterate |-> VInt(<<10>>), descent_direction |-> VInt(<<-20>>),
       alpha0 |-> One, beta1 |-> Rat(1, 2), beta2 |-> Rat(3, 4), lbd |-> Two],
      [obj |-> "quad", iterate |-> VInt(<<10>>), descent_direction |-> VInt(<<-20>>),
       alpha0 |-> DMul(Half, Half), beta1 |-> Rat(1, 4), beta2 |-> Rat(1, 2),
       lbd |-> Two] }

\* The direct calls of linesearch: every problem with every parameter
\* choice, and the extra calls
LsCalls ==
    { [obj |-> p.obj, iterate |-> p.iterate,
       descent_direction |-> p.descent_direction,
       alpha0 |-> alpha0, beta1 |-> b[1], beta2 |-> b[2], lbd |-> lbd] :
         p \in LsProblems, alpha0 \in Alpha0s, lbd \in Lbds, b \in Betas }
    \cup ExtraCalls

\* The caller calls linesearch on a new evaluator or on one that holds the
\* iterate already
CallLinesearch ==
    /\ pc = "idle"
    /\ \E c \in LsCalls, used \in BOOLEAN :
        LET e == IF used THEN UsedEvaluator(c.obj, c.iterate)
                 ELSE NewEvaluator(c.obj)
        IN  /\ fct' = e
            /\ ls' = LsFrame(e, c.iterate, c.descent_direction,
                             c.alpha0, c.beta1, c.beta2, c.lbd)
    /\ entry' = "linesearch"
    /\ pc' = "ls_entry"
    /\ UNCHANGED <<mem, nw, error, hist>>

\* The caller keeps the outcome of a finished call of linesearch and calls
\* it once more with the same arguments, on the evaluator as the first call
\* left it
RepeatLinesearch ==
    /\ entry = "linesearch"
    /\ pc \in {"returned", "raised"}
    /\ ~hist.first.set
    /\ hist' = [hist EXCEPT !.first = [set |-> TRUE, pc |-> pc, error |-> error,
                                       result |-> ls.result,
                                       trials |-> hist.trials],
                            !.trials = <<>>]
    /\ ls' = LsFrame(fct, ls.iterate, ls.descent_direction,
                     ls.alpha0, ls.beta1, ls.beta2, ls.lbd)
    /\ error' = ""
    /\ pc' = "ls_entry"
    /\ UNCHANGED <<entry, fct, mem, nw>>

CallNewton ==
    /\ pc = "idle"
    /\ \E p \in NwProblems, eps \in Epss, maxiter \in Maxiters :
        /\ fct' = NewEvaluator(p.obj)
        /\ mem' = [mem EXCEPT !["starting_point"] = p.starting_point]
        /\ nw' = [NwIdle EXCEPT !.xk = "starting_point", !.eps = eps,
                                !.maxiter = maxiter]
        /\ hist' = [HistIdle EXCEPT !.start0 = p.starting_point]
    /\ entry' = "newton_linesearch"
    /\ pc' = "nw_entry"
    /\ UNCHANGED <<ls, error>>

Init ==
    /\ pc = "idle"
    /\ entry = ""
    /\ fct = NewEvaluator("")
    /\ mem = [a \in {"starting_point"} |-> <<>>]
    /\ ls = LsIdle
    /\ nw = NwIdle
    /\ error = ""
    /\ hist = HistIdle

Next ==
    \/ CallLinesearch
    \/ RepeatLinesearch
    \/ LsEntry
    \/ LsIterate
    \/ LsExhausted
    \/ CallNewton
    \/ NwInit
    \/ NwDirection
    \/ NwResume

Spec == Init /\ [][Next]_vars

(***************************************************************************)
(* Properties of linesearch                                                *)
(***************************************************************************)
\* A linesearch frame exists and its entry code (lines 56-81) has run
LsEntered == ls.iterate # <<>> /\ pc # "ls_entry"

\* The parameter preconditions, stated on the arguments themselves
LbdBad == ~DLt(One, ls.lbd)
Alpha0Bad == ls.alpha0.m <= 0
BetaBad == ls.beta1.num * ls.beta2.den >= ls.beta2.num * ls.beta1.den
ParamsBad == LbdBad \/ Alpha0Bad \/ BetaBad

\* f(point), gradient(point).direction and the candidate of a step, from the
\* objective itself
BaseValue == F(fct.obj, ls.iterate)
BaseDeriv == Inner(G(fct.obj, ls.iterate), ls.descent_direction)
PointAt(a) == VAdd(ls.iterate, VScale(a, ls.descent_direction))

\* f(point + a*direction) <= f(point) + a*beta1*deriv
SufficientDecrease(a) ==
    DLe(DMul(DInt(ls.beta1.den), F(fct.obj, PointAt(a))),
        DAdd(DMul(DInt(ls.beta1.den), BaseValue),
             DMul(DInt(ls.beta1.num), DMul(a, BaseDeriv))))

\* gradient(point + a*direction).direction >= beta2*deriv
Curvature(a) ==
    DLe(DMul(DInt(ls.beta2.num), BaseDeriv),
        DMul(DInt(ls.beta2.den),
             Inner(G(fct.obj, PointAt(a)), ls.descent_direction)))

\* C1: every alpha that linesearch returns satisfies both Wolfe conditions
\* at once: f(point + alpha*direction) <= f(point) + alpha*beta1*deriv and
\* gradient(point + alpha*direction).direction >= beta2*deriv.
C1_ReturnedStepIsWolfe ==
    ls.result.set =>
        /\ SufficientDecrease(ls.result.alpha)
        /\ Curvature(ls.result.alpha)

\* C1 witness: a direct call returned a step after the curvature test had
\* rejected at least one trial (the bracket's lower end moved).
C1_Witness ==
    /\ entry = "linesearch"
    /\ pc = "returned"
    /\ ls.result.set
    /\ ls.alphal.m > 0
    /\ ~Curvature(ls.alphal)

\* C5: with lbd <= 1, alpha0 <= 0 or beta1 >= beta2 the call fails with a
\* parameter-violation error whose condition holds, and the evaluator has
\* not been touched: no set_variables, no f_g, evaluation count zero.
C5_BadParamsFailBeforeEvaluation ==
    (LsEntered /\ ParamsBad) =>
        /\ pc = "raised"
        /\ \/ error = "lambda must be > 1" /\ LbdBad
           \/ error = "alpha0 must be > 0" /\ Alpha0Bad
           \/ error = "Incompatible Wolfe cond. parameters" /\ BetaBad
        /\ fct.n_set = ls.set0
        /\ fct.n_fg = ls.fg0
        /\ fct.n_fgh = 0
        /\ ls.nbr_function_evaluations = 0
        /\ ls.it = 0

\* C5 witness: a call whose only bad parameter is beta1 = beta2 has failed.
C5_Witness ==
    /\ pc = "raised"
    /\ error = "Incompatible Wolfe cond. parameters"
    /\ ~LbdBad /\ ~Alpha0Bad
    /\ ls.beta1 = ls.beta2

\* C6: with valid parameters and gradient(point).direction >= 0 the call
\* fails with the non-descent error after exactly one evaluation (the base
\* point): no trial step is evaluated.
C6_NonDescentFailsAfterBaseEvaluation ==
    (LsEntered /\ ~ParamsBad /\ BaseDeriv.m >= 0) =>
        /\ pc = "raised"
        /\ error = "descent_direction is not a descent direction"
        /\ fct.n_fg = ls.fg0 + 1
        /\ fct.n_set = ls.set0 + 1
        /\ fct.x = ls.iterate
        /\ ls.nbr_function_evaluations = 1
        /\ ls.it = 0
        /\ ~ls.result.set

\* C6 witness: the direction is orthogonal to a non-zero gradient
\* (deriv = 0) and the call has failed.
C6_Witness ==
    /\ pc = "raised"
    /\ error = "descent_direction is not a descent direction"
    /\ BaseDeriv = Zero
    /\ ls.gradient # [i \in 1..Len(ls.gradient) |-> Zero]
    /\ ls.descent_direction # [i \in 1..Len(ls.gradient) |-> Zero]

\* The scenario of C7: f(x) = x^2 at x0 = 10, direction = -gradient,
\* default parameters
QuadraticScenario ==
    /\ entry = "linesearch"
    /\ fct.obj = "quad"
    /\ ls.iterate = <<DInt(10)>>
    /\ ls.descent_direction = VScale(DNeg(One), G("quad", ls.iterate))
    /\ ls.alpha0 = DefaultAlpha0 /\ ls.lbd = DefaultLbd
    /\ ls.beta1 = DefaultBeta1 /\ ls.beta2 = DefaultBeta2

\* C7 as stated: in the quadratic scenario linesearch returns alpha = 1.
C7_Original ==
    (QuadraticScenario /\ pc = "returned") => ls.result.alpha = One

\* C7 amended: in the quadratic scenario alpha = 1 fails the sufficient-
\* decrease test (f(-10) = 100 > 99.96), and linesearch returns alpha = 1/2
\* after 3 evaluations.
C7_QuadraticReturnsHalf ==
    (QuadraticScenario /\ pc = "returned") =>
        /\ ~SufficientDecrease(One)
        /\ ls.result.alpha = Half
        /\ ls.result.nbr_function_evaluations = 3
        /\ ls.alphar = Fin(One)

\* C7 witness: the quadratic scenario has returned.
C7_Witness == QuadraticScenario /\ pc = "returned" /\ ls.result.set

\* C8: the returned eval_count is the number of f_g calls made inside the
\* call, one for the base point plus one per inner iteration run, hence
\* between 2 and MAX_ITERATIONS + 1 = 1001.
C8_EvalCountIsExact ==
    ls.result.set =>
        /\ ls.result.nbr_function_evaluations = fct.n_fg - ls.fg0
        /\ ls.result.nbr_function_evaluations = 1 + ls.it
        /\ ls.result.nbr_function_evaluations >= 2
        /\ ls.result.nbr_function_evaluations <= 1001
        /\ ls.it <= MAX_ITERATIONS

\* C8 witness: a call returned after several inner iterations.
C8_Witness ==
    /\ ls.result.set
    /\ ls.it >= 4
    /\ ls.result.nbr_function_evaluations = 1 + ls.it

(***************************************************************************)
(* Properties of newton_linesearch                                         *)
(***************************************************************************)
NwReturned == entry = "newton_linesearch" /\ pc = "returned"

\* The relative gradient of the starting point the caller passed
StartRelgrad ==
    LET x == hist.start0
        f == F(fct.obj, x)
    IN  relative_gradient(x, f, G(fct.obj, x), Ones(x), DMax(DAbs(f), One))

RECURSIVE SumPlusOne(_)
SumPlusOne(s) ==
    IF Len(s) = 0 THEN 0
    ELSE Head(s) + 1 + SumPlusOne(Tail(s))

\* C2 as stated: a report whose relative gradient is at or below eps names
\* convergence as its cause, also when the iteration count equals maxiter;
\* "Maximum number of iterations reached" is reported only with the
\* relative gradient above eps and the count at maxiter.
C2_Original ==
    NwReturned =>
        LET r == nw.messages
            converged == RelgradLeEps(r.Relative_gradient, nw.eps)
        IN  /\ converged =>
                 r.Cause_of_termination.text = "Relative gradient <= eps"
            /\ r.Cause_of_termination.text = "Maximum number of iterations reached" =>
                 ~converged /\ r.Number_of_iterations = nw.maxiter

\* C3 as stated: with maxiter = 0 and a starting point above eps the driver
\* computes no direction, runs no line search, leaves the iterate alone and
\* reports "Maximum number of iterations reached" with zero iterations.
C3_Original ==
    ( /\ entry = "newton_linesearch"
      /\ nw.maxiter = 0
      /\ ~RelgradLeEps(StartRelgrad, nw.eps) ) =>
        /\ hist.directions = 0
        /\ hist.advances = 0
        /\ mem["starting_point"] = hist.start0
        /\ pc = "returned" =>
             /\ nw.messages.Cause_of_termination.text =
                    "Maximum number of iterations reached"
             /\ nw.messages.Number_of_iterations = 0

\* C4 as stated (its bound): whatever maxiter >= 0 is, the number of outer
\* steps never exceeds maxiter, during the run and in the report.
C4_Original ==
    entry = "newton_linesearch" =>
        /\ nw.k <= nw.maxiter
        /\ hist.advances <= nw.maxiter
        /\ pc = "returned" => nw.messages.Number_of_iterations <= nw.maxiter

\* C9: the function-evaluation counter never decreases and, at every outer-
\* iteration boundary and in the final report, equals
\* 1 + sum over completed outer steps of (that step's eval_count + 1).
C9_CounterAtBoundary ==
    (entry = "newton_linesearch" /\ pc \in {"nw_loop", "returned"}) =>
        /\ Len(hist.ls_evals) = nw.k
        /\ nw.nfev = 1 + SumPlusOne(hist.ls_evals)
        /\ pc = "returned" =>
             nw.messages.Number_of_function_evaluations =
                 1 + SumPlusOne(hist.ls_evals)

C9_FunctionCounter ==
    /\ []C9_CounterAtBoundary
    /\ [][entry = "newton_linesearch" => nw'.nfev >= nw.nfev]_vars

\* C9 witness: a report after two outer steps whose line searches used
\* different numbers of evaluations.
C9_Witness ==
    /\ NwReturned
    /\ Len(hist.ls_evals) >= 2
    /\ hist.ls_evals[1] # hist.ls_evals[2]

\* C10: in every report the function and gradient counts equal the number
\* of f_g calls plus the number of f_g_h calls the evaluator served, and the
\* Hessian count equals the number of f_g_h calls, 1 + the iteration count.
C10_ReportCountsAreExact ==
    NwReturned =>
        LET r == nw.messages
        IN  /\ r.Number_of_function_evaluations = fct.n_fg + fct.n_fgh
            /\ r.Number_of_gradient_evaluations = fct.n_fg + fct.n_fgh
            /\ r.Number_of_hessian_evaluations = fct.n_fgh
            /\ fct.n_fgh = 1 + r.Number_of_iterations

\* C10 witness: a report after at least two outer steps.
C10_Witness ==
    /\ NwReturned
    /\ nw.messages.Number_of_iterations >= 2
    /\ fct.n_fg > fct.n_fgh

\* C11: when the relative gradient of the starting point is at or below eps
\* the driver returns at once: cause convergence, zero iterations, exactly
\* one function, gradient and Hessian evaluation, no direction requested, no
\* line search run, and the starting point unchanged.
C11_ConvergedAtStart ==
    ( /\ entry = "newton_linesearch"
      /\ pc # "nw_entry"
      /\ DLe(DMul(DInt(nw.eps.den), StartRelgrad.num),
             DMul(DInt(nw.eps.num), StartRelgrad.den)) ) =>
        /\ pc = "returned"
        /\ nw.messages.set
        /\ nw.messages.Cause_of_termination.text = "Relative gradient <= eps"
        /\ nw.messages.Number_of_iterations = 0
        /\ nw.messages.Number_of_function_evaluations = 1
        /\ nw.messages.Number_of_gradient_evaluations = 1
        /\ nw.messages.Number_of_hessian_evaluations = 1
        /\ fct.n_fgh = 1 /\ fct.n_fg = 0 /\ fct.n_set = 1
        /\ hist.directions = 0 /\ hist.advances = 0
        /\ ls = LsIdle
        /\ mem["starting_point"] = hist.start0

\* C11 witness: the driver returned from a starting point that is not the
\* minimizer and whose relative gradient equals eps exactly.
C11_Witness ==
    /\ NwReturned
    /\ nw.messages.Number_of_iterations = 0
    /\ StartRelgrad.num # Zero
    /\ DMul(DInt(nw.eps.den), StartRelgrad.num) =
           DMul(DInt(nw.eps.num), StartRelgrad.den)


\* C12: an error raised by linesearch during an outer step leaves
\* newton_linesearch as linesearch raised it: the call has ended (no retry, no
\* further step of any kind), the error is one of linesearch's own, no step
\* and no report were produced, and the iterate stands where it stood when
\* the failing line search was called (one direction more than advances).
C12_FailurePropagates ==
    (entry = "newton_linesearch" /\ error # "") =>
        /\ pc = "raised"
        /\ ~ENABLED Next
        /\ error \in {"lambda must be > 1", "alpha0 must be > 0",
                      "Incompatible Wolfe cond. parameters",
                      "descent_direction is not a descent direction",
                      "Line search algorithm could not find a step"}
        /\ ~ls.result.set
        /\ ~nw.messages.set
        /\ hist.directions = hist.advances + 1
        /\ nw.k = hist.advances
        /\ Len(hist.ls_evals) = hist.advances
        /\ mem["starting_point"] = ls.iterate

\* C12 witness: the inner budget ran out during an outer step of the driver.
C12_Witness ==
    /\ entry = "newton_linesearch"
    /\ pc = "raised"
    /\ error = "Line search algorithm could not find a step"
    /\ hist.directions = 1
    /\ fct.n_fg - ls.fg0 = 1001


\* The state part of C13, for a call with valid parameters and a descent
\* direction: at most 1000 passes of the loop and 1001 evaluations; the call
\* is in its loop, or has returned a step both Wolfe tests accept, or has
\* failed; it fails only with the exhausted-budget error, after exactly 1000
\* passes and 1001 evaluations, and then returns no step.
C13_Bounded ==
    (LsEntered /\ ~ParamsBad /\ DLt(BaseDeriv, Zero)) =>
        /\ ls.it <= 1000
        /\ fct.n_fg - ls.fg0 = ls.it + 1
        /\ fct.n_fg - ls.fg0 <= 1001
        /\ (pc = "ls_loop") \/ ls.result.set \/ (pc = "raised")
        /\ ls.result.set =>
              /\ pc # "ls_loop" /\ pc # "raised" /\ error = ""
              /\ SufficientDecrease(ls.result.alpha)
              /\ Curvature(ls.result.alpha)
        /\ (pc = "raised") =>
              /\ error = "Line search algorithm could not find a step"
              /\ ls.it = 1000
              /\ fct.n_fg - ls.fg0 = 1001
              /\ ~ls.result.set

\* One step of a running loop: it is pass number it + 1, or the loop has run
\* 1000 times and the call fails.
C13_LoopStep ==
    (pc = "ls_loop") =>
        \/ ls'.it = ls.it + 1 /\ pc' \in {"ls_loop", "returned", "nw_resume"}
        \/ ls.it = 1000 /\ ls' = ls /\ pc' = "raised"

\* C13: every call of linesearch with valid parameters and a descent
\* direction terminates after at most 1000 inner iterations (at most 1001
\* evaluations): every step of the loop is a new pass or the end of the call,
\* and there are never more than 1000 passes; the call ends returning a step accepted by both Wolfe tests or failing with the
\* exhausted-budget error and no step.
C13_TerminatesWithinBudget ==
    /\ []C13_Bounded
    /\ [][C13_LoopStep]_vars

\* C13 witness: a direct call that used all 1000 passes and failed.
C13_Witness ==
    /\ entry = "linesearch"
    /\ pc = "raised"
    /\ ~ParamsBad
    /\ DLt(BaseDeriv, Zero)
    /\ ls.it = 1000
    /\ error = "Line search algorithm could not find a step"


\* C14: the caller's vector is not aliased with the driver's iterate: after
\* at least one outer step of newton_linesearch the array the caller passed
\* as starting_point still holds the value it was passed with, so a second
\* call with that array would start from the same point.  The code binds xk
\* to the caller's array (line 136) and adds to it in place (line 165), so
\* the array moves with the iterate.
C14_Original ==
    (entry = "newton_linesearch" /\ hist.advances >= 1) =>
        mem["starting_point"] = hist.start0


\* C15: linesearch is deterministic: a second call with the same objective,
\* point, direction, alpha0, beta1, beta2 and lbd, made on the evaluator as
\* the first call left it, tries the same steps in the same order (at every
\* moment its trials are a prefix of the first call's) and ends as the first
\* did: the same (alpha, eval_count), or the same failure.
C15_SecondCallRepeatsFirst ==
    (entry = "linesearch" /\ hist.first.set) =>
        /\ Len(hist.trials) <= Len(hist.first.trials)
        /\ hist.trials = SubSeq(hist.first.trials, 1, Len(hist.trials))
        /\ (pc \in {"returned", "raised"}) =>
              /\ pc = hist.first.pc
              /\ error = hist.first.error
              /\ ls.result = hist.first.result
              /\ hist.trials = hist.first.trials

\* C15 witness: a second call that returned after at least three trial
\* steps, as the first had.
C15_Witness ==
    /\ entry = "linesearch"
    /\ hist.first.set
    /\ pc = "returned"
    /\ Len(hist.trials) >= 3
    /\ ls.result.set


\* A pass of the loop: the step from a state inside the loop that counts one
\* more iteration
LoopPass == pc = "ls_loop" /\ ls'.it = ls.it + 1

\* One pass whose trial violates sufficient decrease
C16_ShrinkStep ==
    (LoopPass /\ ~SufficientDecrease(ls.alpha)) =>
        /\ ls'.alphar = Fin(ls.alpha)
        /\ ls'.alphal = ls.alphal
        /\ DMul(Two, ls'.alpha) = DAdd(ls.alphal, ls.alpha)
        /\ DLt(ls'.alpha, ls.alpha)
        /\ pc' = "ls_loop"
        /\ ~ls'.result.set

\* C16: in every inner iteration whose trial value exceeds
\* f(point) + alpha*beta1*deriv the update is alphaR := alpha,
\* alpha := (alphaL + alphaR)/2, alphaL unchanged, whatever the curvature
\* test would say: a trial that violates both conditions is shrunk, never
\* expanded.
C16_DecreaseViolatedShrinks == [][C16_ShrinkStep]_vars

\* C16 witness: the loop has just shrunk after a trial that violated both
\* conditions.
C16_Witness ==
    /\ pc = "ls_loop"
    /\ ~ls.alphar.inf
    /\ hist.trials # <<>>
    /\ hist.trials[Len(hist.trials)] = ls.alphar.v
    /\ ~SufficientDecrease(ls.alphar.v)
    /\ ~Curvature(ls.alphar.v)
    /\ DMul(Two, ls.alpha) = DAdd(ls.alphal, ls.alphar.v)


\* One pass whose trial satisfies sufficient decrease and violates curvature
C17_GrowStep ==
    (LoopPass /\ SufficientDecrease(ls.alpha) /\ ~Curvature(ls.alpha)) =>
        /\ ls'.alphal = ls.alpha
        /\ ls'.alphar = ls.alphar
        /\ ls'.alpha = IF ls.alphar.inf THEN DMul(ls.lbd, ls.alpha)
                       ELSE DMul(Half, DAdd(ls.alpha, ls.alphar.v))
        /\ pc' = "ls_loop"
        /\ ~ls'.result.set

\* Expansion belongs to the time before the first sufficient-decrease
\* violation: alphaR is still infinite after a pass only if it was infinite
\* before and the trial of the pass had sufficient decrease, so an infinite
\* alphaR means no trial of this call has violated it; a finite alphaR is
\* a trial that did, and a pass never makes it infinite again.
C17_InfiniteOnlyWithoutViolation ==
    (LoopPass /\ ls'.alphar.inf) =>
        ls.alphar.inf /\ SufficientDecrease(ls.alpha)

C17_StaysFinite == (LoopPass /\ ~ls.alphar.inf) => ~ls'.alphar.inf

C17_FiniteIsViolation ==
    (pc = "ls_loop" /\ ~ls.alphar.inf) =>
        /\ ~SufficientDecrease(ls.alphar.v)
        /\ \E i \in 1..Len(hist.trials) : hist.trials[i] = ls.alphar.v

\* C17: in every inner iteration whose trial satisfies sufficient decrease
\* but has gradient(candidate).direction < beta2*deriv, the update is
\* alphaL := alpha, alphaR unchanged, then alpha := lbd*alpha if alphaR is
\* still infinite and alpha := (alphaL + alphaR)/2 otherwise; expansion by
\* lbd happens only while no sufficient-decrease violation has occurred in
\* this call, and never again afterwards.
C17_CurvatureViolatedGrows ==
    /\ [][C17_GrowStep /\ C17_InfiniteOnlyWithoutViolation /\ C17_StaysFinite]_vars
    /\ []C17_FiniteIsViolation

\* C17 witness: a curvature violation inside a finite bracket has just been
\* answered by bisection, where lbd*alpha would have been another step.
C17_Witness ==
    /\ pc = "ls_loop"
    /\ ~ls.alphar.inf
    /\ hist.trials # <<>>
    /\ hist.trials[Len(hist.trials)] = ls.alphal
    /\ SufficientDecrease(ls.alphal)
    /\ ~Curvature(ls.alphal)
    /\ ls.alpha = DMul(Half, DAdd(ls.alphal, ls.alphar.v))
    /\ ls.alpha # DMul(ls.lbd, ls.alphal)


\* f(point + a*direction) = f(point) + a*beta1*deriv exactly
DecreaseTight(a) ==
    DMul(DInt(ls.beta1.den), F(fct.obj, PointAt(a))) =
        DAdd(DMul(DInt(ls.beta1.den), BaseValue),
             DMul(DInt(ls.beta1.num), DMul(a, BaseDeriv)))

\* gradient(point + a*direction).direction = beta2*deriv exactly
CurvatureTight(a) ==
    DMul(DInt(ls.beta2.num), BaseDeriv) =
        DMul(DInt(ls.beta2.den),
             Inner(G(fct.obj, PointAt(a)), ls.descent_direction))

\* The pass accepts its trial: the loop ends and the trial is returned
Accepted ==
    /\ ls'.result = [set |-> TRUE, alpha |-> ls.alpha,
                     nbr_function_evaluations |-> ls.nbr_function_evaluations + 1]
    /\ ls'.alphal = ls.alphal
    /\ ls'.alphar = ls.alphar
    /\ pc' \in {"returned", "nw_resume"}

C18_TightStep ==
    /\ (LoopPass /\ DecreaseTight(ls.alpha)) =>
          /\ ls'.alphar = ls.alphar
          /\ Curvature(ls.alpha) => Accepted
    /\ (LoopPass /\ CurvatureTight(ls.alpha) /\ SufficientDecrease(ls.alpha)) =>
          Accepted
    /\ (LoopPass /\ DecreaseTight(ls.alpha) /\ CurvatureTight(ls.alpha)) =>
          Accepted

\* C18: boundary cases of the Wolfe tests count as satisfied: a trial whose
\* value equals f(point) + alpha*beta1*deriv exactly is not taken for too
\* long, a trial whose gradient(candidate).direction equals beta2*deriv
\* exactly is not taken for too short, and a trial exactly tight on both is
\* accepted and returned in that iteration.
C18_TightCountsAsSatisfied == [][C18_TightStep]_vars

\* C18 witness: a returned step that is exactly tight on both conditions.
C18_Witness ==
    /\ entry = "linesearch"
    /\ pc = "returned"
    /\ ls.result.set
    /\ DecreaseTight(ls.result.alpha)
    /\ CurvatureTight(ls.result.alpha)

\* Returned steps tight on one condition and strict on the other
C18_DecreaseOnlyTight ==
    /\ pc = "returned" /\ ls.result.set
    /\ DecreaseTight(ls.result.alpha) /\ ~CurvatureTight(ls.result.alpha)

C18_CurvatureOnlyTight ==
    /\ pc = "returned" /\ ls.result.set
    /\ CurvatureTight(ls.result.alpha) /\ ~DecreaseTight(ls.result.alpha)


\* The bracket at the start of an inner iteration
C19_Bracket ==
    (pc = "ls_loop") =>
        /\ DLe(Zero, ls.alphal)
        /\ DLt(ls.alphal, ls.alpha)
        /\ DLt(Zero, ls.alpha)
        /\ ~ls.alphar.inf => DLt(ls.alpha, ls.alphar.v)

\* The bracket across one pass of the loop
C19_Monotone ==
    LoopPass =>
        /\ DLe(ls.alphal, ls'.alphal)
        /\ ~ls.alphar.inf =>
              ~ls'.alphar.inf /\ DLe(ls'.alphar.v, ls.alphar.v)

\* C19: at the start of every inner iteration 0 <= alphaL < alpha, and
\* alpha < alphaR whenever alphaR is finite, so the trial step is strictly
\* positive; across iterations alphaL never decreases, alphaR never
\* increases, and a finite alphaR stays finite.
C19_BracketInvariant ==
    /\ []C19_Bracket
    /\ [][C19_Monotone]_vars

\* C19 witness: an iteration starts with both ends of the bracket moved:
\* 0 < alphaL < alpha < alphaR < infinity.
C19_Witness ==
    /\ pc = "ls_loop"
    /\ ~ls.alphar.inf
    /\ DLt(Zero, ls.alphal)
    /\ DLt(ls.alphal, ls.alpha)
    /\ DLt(ls.alpha, ls.alphar.v)
    /\ Len(hist.trials) >= 3


\* C20: whenever newton_linesearch returns after at least one outer step,
\* the relative gradient in the report is <= eps or the reported number of
\* iterations equals maxiter, and the reported number of iterations is the
\* number of line searches that were run and the number of times the
\* iterate was advanced.
C20_ReturnAfterSteps ==
    (NwReturned /\ hist.advances >= 1) =>
        LET r == nw.messages
        IN  /\ r.set
            /\ \/ RelgradLeEps(r.Relative_gradient, nw.eps)
               \/ r.Number_of_iterations = nw.maxiter
            /\ r.Number_of_iterations = hist.directions
            /\ r.Number_of_iterations = Len(hist.ls_evals)
            /\ r.Number_of_iterations = hist.advances

\* C20 witness: the driver returned after two outer steps because the cap
\* was reached, the relative gradient still above eps.
C20_Witness ==
    /\ NwReturned
    /\ nw.messages.Number_of_iterations = 2
    /\ nw.maxiter = 2
    /\ hist.advances = 2
    /\ ~RelgradLeEps(nw.messages.Relative_gradient, nw.eps)

=============================================================================
